---- MODULE Spec2Model ----
(***************************************************************************)
(* shutdown-guard-rs: the callback Registry (src/lib.rs) and the three     *)
(* platform monitors (src/platform/{macos,linux,windows}.rs) as one state  *)
(* machine.  The build configuration (target_os, feature "dbus-support")   *)
(* is the variable `platform`, fixed by Init.                              *)
(*                                                                         *)
(* Execution contexts are pairs <<kind, n>>: application threads           *)
(* <<"app", t>>, signal-handler invocations <<"sig", d>> and spawned       *)
(* monitor threads <<"mon", m>>.                                           *)
(***************************************************************************)
EXTENDS Naturals, Sequences, FiniteSets

\* ---------------------------------------------------------------- bounds
MaxCallbacks == 2       \* entries the Registries hold together in the model
MaxDeliveries == 2      \* signals delivered to the handler
MaxStarts == 2          \* monitor threads start() may spawn
MaxMessages == 2        \* shutdown messages the monitor threads receive

\* Application threads: the main thread 1 makes every call of the API; thread 2
\* registers and clears concurrently.
Threads == {1, 2}
Deliveries == 1..MaxDeliveries
Monitors == 1..MaxStarts
Guards == {"g1", "g2"}
None == "None"
NoCtx == <<"none", 0>>

\* Callback bodies are opaque; the model distinguishes two that return and
\* one whose body panics.
Callbacks == {"A", "B", "F"}
Panics(cb) == cb = "F"

\* Callbacks that captured their own guard: the body of "R" calls
\* guard.register(A), the body of "C" calls guard.clear().
ReentrantCallbacks == {"R", "C"}
Reenters(cb) == cb \in ReentrantCallbacks

Platforms == {"macos", "linux", "linux_dbus", "windows"}
SignalPlatforms == {"macos", "linux"}

\* The signals register_signal_handlers installs, in the order of the code.
HandledSignals(p) ==
    IF p = "macos" THEN <<"SIGTERM", "SIGINT", "SIGHUP">>
    ELSE IF p = "linux" THEN <<"SIGTERM", "SIGINT">>
    ELSE <<>>

\* A bus message carries an optional interface and an optional member.
BusMessages ==
    [interface : {None, "org.freedesktop.login1.Manager", "org.freedesktop.DBus"},
     member : {None, "PrepareForShutdown", "PrepareForSleep"}]

\* linux.rs is_shutdown_signal: the interface is present and equal to
\* org.freedesktop.login1.Manager, and the member is present and equal to
\* PrepareForShutdown (unwrap_or(false) on a missing field).
is_shutdown_signal(msg) ==
    /\ (IF msg.interface = None THEN FALSE
        ELSE msg.interface = "org.freedesktop.login1.Manager")
    /\ (IF msg.member = None THEN FALSE
        ELSE msg.member = "PrepareForShutdown")

\* windows.rs window_proc: the match arm WM_QUERYENDSESSION | WM_ENDSESSION
\* among the messages the window receives.
WindowMessages == {"WM_QUERYENDSESSION", "WM_ENDSESSION", "WM_OTHER"}
SessionEndMessages == {"WM_QUERYENDSESSION", "WM_ENDSESSION"}

VARIABLES
    platform,          \* build configuration
    registry,          \* registry[g]: the Vec<ShutdownCallback> of guard g
    wbit,              \* wbit[g]: the context owning the RwLock's writer bit
    readers,           \* readers[g]: the contexts holding a read guard
    GLOBAL_CALLBACKS,  \* static mut GLOBAL_CALLBACKS: None or the guard stored
    SIGNAL_RECEIVED,   \* static SIGNAL_RECEIVED: AtomicBool
    installed,         \* signals whose disposition is handle_shutdown_signal
    app,               \* app[t]: the call application thread t is inside
    sig,               \* sig[d]: the d-th invocation of handle_shutdown_signal(signo)
    mon,               \* mon[m]: the m-th spawned monitor thread
    proc,              \* "running", "exited" (_exit) or "aborted" (panic abort)
    expected,          \* history: callbacks registered since the last clear
    firings            \* history: firings[m], shutdown messages monitor thread m acted on

vars == <<platform, registry, wbit, readers, GLOBAL_CALLBACKS, SIGNAL_RECEIVED,
          installed, app, sig, mon, proc, expected, firings>>

AppCtx(t) == <<"app", t>>
SigCtx(d) == <<"sig", d>>
MonCtx(m) == <<"mon", m>>

IdleApp ==
    [pc |-> "idle", g |-> None, cb |-> None, idx |-> 0, log |-> <<>>,
     snap |-> <<>>, ret |-> None, did |-> {}, m |-> 0]
IdleSig ==
    [pc |-> "none", signo |-> None, won |-> FALSE, locked |-> FALSE,
     g |-> None, idx |-> 0, log |-> <<>>, snap |-> <<>>]
IdleMon ==
    [pc |-> "unused", g |-> None, msg |-> None, idx |-> 0,
     log |-> <<>>, snap |-> <<>>]

Init ==
    /\ platform \in Platforms
    /\ registry = [g \in Guards |-> <<>>]
    /\ wbit = [g \in Guards |-> NoCtx]
    /\ readers = [g \in Guards |-> {}]
    /\ GLOBAL_CALLBACKS = None
    /\ SIGNAL_RECEIVED = FALSE
    /\ installed = {}
    /\ app = [t \in Threads |-> IdleApp]
    /\ sig = [d \in Deliveries |-> IdleSig]
    /\ mon = [m \in Monitors |-> IdleMon]
    /\ proc = "running"
    /\ expected = [g \in Guards |-> <<>>]
    /\ firings = [m \in Monitors |-> 0]

\* ------------------------------------------------- parking_lot::RwLock
\* write(): the caller first takes the writer bit (waiting while another
\* writer owns it) and then waits for the readers to leave.
\* read(): waits while the writer bit is set.  try_read(): fails while the
\* writer bit is set.
CanTakeWriterBit(g) == wbit[g] = NoCtx
\* A lock that grants write() to the context that is its only reader.
WriteGrantedToOwnReader(g, ctx) == wbit[g] = ctx /\ readers[g] \subseteq {ctx}
WriteGranted(g, ctx) == wbit[g] = ctx /\ readers[g] = {}
CanRead(g) == wbit[g] = NoCtx

\* ----------------------------------------------------- src/lib.rs register
\* The model's capacity bounds the entries of all Registries together,
\* registrations in flight included.
Occupied ==
    Len(registry["g1"]) + Len(registry["g2"])
        + Cardinality({t \in Threads : app[t].pc = "reg_wait"})

register_write(t, g, cb) ==
    /\ proc = "running"
    /\ app[t].pc = "idle"
    /\ Occupied < MaxCallbacks
    /\ CanTakeWriterBit(g)
    /\ wbit' = [wbit EXCEPT ![g] = AppCtx(t)]
    /\ app' = [app EXCEPT ![t] = [IdleApp EXCEPT !.pc = "reg_wait", !.g = g, !.cb = cb]]
    /\ UNCHANGED <<platform, registry, readers, GLOBAL_CALLBACKS, SIGNAL_RECEIVED,
                   installed, sig, mon, proc, expected, firings>>

\* Vec::push under the write guard, then the guard is dropped.
register_push(t) ==
    /\ proc = "running"
    /\ app[t].pc = "reg_wait"
    /\ WriteGranted(app[t].g, AppCtx(t))
    /\ registry' = [registry EXCEPT ![app[t].g] = Append(@, app[t].cb)]
    /\ expected' = [expected EXCEPT ![app[t].g] = Append(@, app[t].cb)]
    /\ wbit' = [wbit EXCEPT ![app[t].g] = NoCtx]
    /\ app' = [app EXCEPT ![t] = IdleApp]
    /\ UNCHANGED <<platform, readers, GLOBAL_CALLBACKS, SIGNAL_RECEIVED,
                   installed, sig, mon, proc, firings>>

\* -------------------------------------------------------- src/lib.rs clear
clear_write(t, g) ==
    /\ proc = "running"
    /\ app[t].pc = "idle"
    /\ CanTakeWriterBit(g)
    /\ wbit' = [wbit EXCEPT ![g] = AppCtx(t)]
    /\ app' = [app EXCEPT ![t] = [IdleApp EXCEPT !.pc = "clear_wait", !.g = g]]
    /\ UNCHANGED <<platform, registry, readers, GLOBAL_CALLBACKS, SIGNAL_RECEIVED,
                   installed, sig, mon, proc, expected, firings>>

\* A clear that removes only the last entry (Vec::pop in place of Vec::clear).
clear_pops_last(t) ==
    /\ proc = "running"
    /\ app[t].pc = "clear_wait"
    /\ WriteGranted(app[t].g, AppCtx(t))
    /\ registry' = [registry EXCEPT
                      ![app[t].g] = IF @ = <<>> THEN @ ELSE SubSeq(@, 1, Len(@) - 1)]
    /\ expected' = [expected EXCEPT ![app[t].g] = <<>>]
    /\ wbit' = [wbit EXCEPT ![app[t].g] = NoCtx]
    /\ app' = [app EXCEPT ![t] = IdleApp]
    /\ UNCHANGED <<platform, readers, GLOBAL_CALLBACKS, SIGNAL_RECEIVED,
                   installed, sig, mon, proc, firings>>

\* Vec::clear under the write guard, then the guard is dropped.
clear_clear(t) ==
    /\ proc = "running"
    /\ app[t].pc = "clear_wait"
    /\ WriteGranted(app[t].g, AppCtx(t))
    /\ registry' = [registry EXCEPT ![app[t].g] = <<>>]
    /\ expected' = [expected EXCEPT ![app[t].g] = <<>>]
    /\ wbit' = [wbit EXCEPT ![app[t].g] = NoCtx]
    /\ app' = [app EXCEPT ![t] = IdleApp]
    /\ UNCHANGED <<platform, readers, GLOBAL_CALLBACKS, SIGNAL_RECEIVED,
                   installed, sig, mon, proc, firings>>

\* ----------------------------------------------- src/lib.rs callback_count
\* read() guard, Vec::len, guard dropped at the end of the statement.
callback_count(t, g) ==
    /\ proc = "running"
    /\ app[t].pc = "idle"
    /\ CanRead(g)
    /\ app' = [app EXCEPT ![t] = [IdleApp EXCEPT !.pc = "count_done", !.g = g,
                                                 !.ret = Len(registry[g]),
                                                 !.snap = expected[g]]]
    /\ UNCHANGED <<platform, registry, wbit, readers, GLOBAL_CALLBACKS,
                   SIGNAL_RECEIVED, installed, sig, mon, proc, expected, firings>>

\* -------------------------------------------- src/lib.rs execute_callbacks
execute_callbacks_read(t, g) ==
    /\ proc = "running"
    /\ app[t].pc = "idle"
    /\ CanRead(g)
    /\ readers' = [readers EXCEPT ![g] = @ \cup {AppCtx(t)}]
    /\ app' = [app EXCEPT ![t] = [IdleApp EXCEPT !.pc = "iter", !.g = g, !.idx = 1,
                                                 !.snap = expected[g]]]
    /\ UNCHANGED <<platform, registry, wbit, GLOBAL_CALLBACKS, SIGNAL_RECEIVED,
                   installed, sig, mon, proc, expected, firings>>

\* callback(): a body that returns lets the loop go on; a body that panics
\* unwinds out of execute_callbacks, dropping the read guard on the way.
execute_callbacks_invoke(t) ==
    /\ proc = "running"
    /\ app[t].pc = "iter"
    /\ app[t].idx <= Len(registry[app[t].g])
    /\ LET cb == registry[app[t].g][app[t].idx] IN
        IF Panics(cb)
        THEN /\ app' = [app EXCEPT ![t].pc = "exec_unwound",
                                   ![t].log = Append(@, cb)]
             /\ readers' = [readers EXCEPT ![app[t].g] = @ \ {AppCtx(t)}]
        ELSE IF Reenters(cb)
        THEN /\ app' = [app EXCEPT ![t].pc = "cb_write", ![t].log = Append(@, cb)]
             /\ UNCHANGED readers
        ELSE /\ app' = [app EXCEPT ![t].idx = @ + 1, ![t].log = Append(@, cb)]
             /\ UNCHANGED readers
    /\ UNCHANGED <<platform, registry, wbit, GLOBAL_CALLBACKS, SIGNAL_RECEIVED,
                   installed, sig, mon, proc, expected, firings>>

\* The body of a callback that captured its guard, inside the loop of
\* execute_callbacks: register()/clear() call self.callbacks.write(), which
\* takes the writer bit and then waits for the readers to leave; once granted
\* it pushes or clears, drops the write guard, and the body returns to the loop.
execute_callbacks_callback_write(t) ==
    /\ proc = "running"
    /\ app[t].pc \in {"cb_write", "cb_wait"}
    /\ LET g == app[t].g
           cb == registry[g][app[t].idx] IN
        IF app[t].pc = "cb_write"
        THEN /\ CanTakeWriterBit(g)
             /\ wbit' = [wbit EXCEPT ![g] = AppCtx(t)]
             /\ app' = [app EXCEPT ![t].pc = "cb_wait"]
             /\ UNCHANGED <<registry, expected>>
        ELSE /\ WriteGranted(g, AppCtx(t))
             /\ registry' = [registry EXCEPT
                               ![g] = IF cb = "R" THEN Append(@, "A") ELSE <<>>]
             /\ expected' = [expected EXCEPT
                               ![g] = IF cb = "R" THEN Append(@, "A") ELSE <<>>]
             /\ wbit' = [wbit EXCEPT ![g] = NoCtx]
             /\ app' = [app EXCEPT ![t].pc = "iter", ![t].idx = @ + 1]
    /\ UNCHANGED <<platform, readers, GLOBAL_CALLBACKS, SIGNAL_RECEIVED,
                   installed, sig, mon, proc, firings>>

\* An execute_callbacks that consumes the Registry as it returns.
execute_callbacks_drains(t) ==
    /\ proc = "running"
    /\ app[t].pc = "iter"
    /\ app[t].idx > Len(registry[app[t].g])
    /\ readers' = [readers EXCEPT ![app[t].g] = @ \ {AppCtx(t)}]
    /\ registry' = [registry EXCEPT ![app[t].g] = <<>>]
    /\ expected' = [expected EXCEPT ![app[t].g] = <<>>]
    /\ app' = [app EXCEPT ![t].pc = "exec_done"]
    /\ UNCHANGED <<platform, wbit, GLOBAL_CALLBACKS, SIGNAL_RECEIVED,
                   installed, sig, mon, proc, firings>>

\* The iterator is exhausted: the read guard is dropped and the call returns.
execute_callbacks_return(t) ==
    /\ proc = "running"
    /\ app[t].pc = "iter"
    /\ app[t].idx > Len(registry[app[t].g])
    /\ readers' = [readers EXCEPT ![app[t].g] = @ \ {AppCtx(t)}]
    /\ app' = [app EXCEPT ![t].pc = "exec_done"]
    /\ UNCHANGED <<platform, registry, wbit, GLOBAL_CALLBACKS, SIGNAL_RECEIVED,
                   installed, sig, mon, proc, expected, firings>>

\* The caller takes the result (or catches the unwind) and goes on.
Return(t) ==
    /\ proc = "running"
    /\ app[t].pc \in {"count_done", "exec_done", "exec_unwound", "start_done"}
    /\ app' = [app EXCEPT ![t] = IdleApp]
    /\ UNCHANGED <<platform, registry, wbit, readers, GLOBAL_CALLBACKS,
                   SIGNAL_RECEIVED, installed, sig, mon, proc, expected, firings>>

\* The calls of the main thread on the guards G.
AppMain(G) ==
    \/ \E g \in G, cb \in Callbacks : register_write(1, g, cb)
    \/ register_push(1)
    \/ \E g \in G : clear_write(1, g)
    \/ clear_clear(1)
    \/ \E g \in G : callback_count(1, g)
    \/ \E g \in G : execute_callbacks_read(1, g)
    \/ execute_callbacks_invoke(1)
    \/ execute_callbacks_return(1)
    \/ Return(1)

\* The calls of the second thread on the guards G.
AppWorker(G) ==
    \/ \E g \in G, cb \in Callbacks : register_write(2, g, cb)
    \/ register_push(2)
    \/ \E g \in G : clear_write(2, g)
    \/ clear_clear(2)

\* ------------------------------------------- POSIX signal monitor: arming
\* src/platform/macos.rs, and src/platform/linux.rs without "dbus-support".
\* start() -> start_monitoring: GLOBAL_CALLBACKS = Some(callbacks), then
\* register_signal_handlers installs the handlers one sigaction at a time.
start_monitoring_signal(t, g) ==
    /\ proc = "running"
    /\ platform \in SignalPlatforms
    /\ app[t].pc = "idle"
    /\ GLOBAL_CALLBACKS' = g
    /\ app' = [app EXCEPT ![t] = [IdleApp EXCEPT !.pc = "install", !.g = g, !.idx = 1]]
    /\ UNCHANGED <<platform, registry, wbit, readers, SIGNAL_RECEIVED, installed,
                   sig, mon, proc, expected, firings>>

\* One libc::sigaction call; `ok` is the OS accepting it (return value 0).
\* A rejection returns Err at once; the last acceptance returns Ok.
register_signal_handlers(t, ok) ==
    /\ proc = "running"
    /\ app[t].pc = "install"
    /\ LET signals == HandledSignals(platform)
           s == signals[app[t].idx]
           last == app[t].idx = Len(signals) IN
        IF ok
        THEN /\ installed' = installed \cup {s}
             /\ app' = [app EXCEPT
                          ![t].did = @ \cup {s},
                          ![t].idx = IF last THEN 0 ELSE @ + 1,
                          ![t].pc = IF last THEN "start_done" ELSE @,
                          ![t].ret = IF last THEN "Ok" ELSE @]
        ELSE /\ app' = [app EXCEPT ![t].pc = "start_done", ![t].ret = "Err",
                                   ![t].idx = 0]
             /\ UNCHANGED installed
    /\ UNCHANGED <<platform, registry, wbit, readers, GLOBAL_CALLBACKS,
                   SIGNAL_RECEIVED, sig, mon, proc, expected, firings>>

\* ------------------------------------------ POSIX signal monitor: handler
\* A load followed by no store: the flag is tested and never set.
handle_shutdown_signal_load_only(d, s) ==
    /\ IF SIGNAL_RECEIVED
       THEN sig' = [sig EXCEPT ![d] = [IdleSig EXCEPT !.pc = "returned"]]
       ELSE sig' = [sig EXCEPT ![d] = [IdleSig EXCEPT !.pc = "try_read",
                                                      !.signo = s, !.won = TRUE]]
    /\ UNCHANGED <<platform, registry, wbit, readers, GLOBAL_CALLBACKS,
                   SIGNAL_RECEIVED, installed, app, mon, proc, expected, firings>>

\* if SIGNAL_RECEIVED.swap(true, SeqCst) { return; }
\* The first statement of handle_shutdown_signal(signum), one atomic
\* read-modify-write.
handle_shutdown_signal_swap(d, s) ==
    /\ IF SIGNAL_RECEIVED
       THEN sig' = [sig EXCEPT ![d] = [IdleSig EXCEPT !.pc = "returned"]]
       ELSE sig' = [sig EXCEPT ![d] = [IdleSig EXCEPT !.pc = "try_read",
                                                      !.signo = s, !.won = TRUE]]
    /\ SIGNAL_RECEIVED' = TRUE
    /\ UNCHANGED <<platform, registry, wbit, readers, GLOBAL_CALLBACKS,
                   installed, app, mon, proc, expected, firings>>

\* The OS delivers signal s, whose disposition is handle_shutdown_signal, to
\* some thread of the process, and the handler is entered; invocations are
\* numbered in the order of their swaps.
Deliver(d, s) ==
    /\ proc = "running"
    /\ s \in installed
    /\ sig[d].pc = "none"
    /\ IF d = 1 THEN TRUE ELSE sig[d - 1].pc # "none"
    /\ handle_shutdown_signal_swap(d, s)

\* The handler iterates although try_read failed.
handle_shutdown_signal_ignores_try_read(d) ==
    /\ proc = "running"
    /\ sig[d].pc = "try_read"
    /\ IF GLOBAL_CALLBACKS = None
       THEN /\ sig' = [sig EXCEPT ![d].pc = "exit"]
            /\ UNCHANGED readers
       ELSE /\ sig' = [sig EXCEPT ![d].pc = "iter", ![d].g = GLOBAL_CALLBACKS,
                                  ![d].idx = 1,
                                  ![d].locked = CanRead(GLOBAL_CALLBACKS),
                                  ![d].snap = expected[GLOBAL_CALLBACKS]]
            /\ readers' = [readers EXCEPT ![GLOBAL_CALLBACKS] = @ \cup {SigCtx(d)}]
    /\ UNCHANGED <<platform, registry, wbit, GLOBAL_CALLBACKS, SIGNAL_RECEIVED,
                   installed, app, mon, proc, expected, firings>>

\* The handler takes the Registry with the blocking read(), waiting while the
\* writer bit is set.
handle_shutdown_signal_blocking_read(d) ==
    /\ proc = "running"
    /\ sig[d].pc = "try_read"
    /\ IF GLOBAL_CALLBACKS = None
       THEN /\ sig' = [sig EXCEPT ![d].pc = "exit"]
            /\ UNCHANGED readers
       ELSE /\ CanRead(GLOBAL_CALLBACKS)
            /\ sig' = [sig EXCEPT ![d].pc = "iter", ![d].g = GLOBAL_CALLBACKS,
                                  ![d].idx = 1, ![d].locked = TRUE,
                                  ![d].snap = expected[GLOBAL_CALLBACKS]]
            /\ readers' = [readers EXCEPT ![GLOBAL_CALLBACKS] = @ \cup {SigCtx(d)}]
    /\ UNCHANGED <<platform, registry, wbit, GLOBAL_CALLBACKS, SIGNAL_RECEIVED,
                   installed, app, mon, proc, expected, firings>>

\* if let Some(callbacks) = GLOBAL_CALLBACKS.as_ref() {
\*     if let Some(callbacks_lock) = callbacks.try_read() { ... }
handle_shutdown_signal_try_read(d) ==
    /\ proc = "running"
    /\ sig[d].pc = "try_read"
    /\ IF GLOBAL_CALLBACKS = None
       THEN /\ sig' = [sig EXCEPT ![d].pc = "exit"]
            /\ UNCHANGED readers
       ELSE IF CanRead(GLOBAL_CALLBACKS)
       THEN /\ sig' = [sig EXCEPT ![d].pc = "iter", ![d].g = GLOBAL_CALLBACKS,
                                  ![d].idx = 1, ![d].locked = TRUE,
                                  ![d].snap = expected[GLOBAL_CALLBACKS]]
            /\ readers' = [readers EXCEPT ![GLOBAL_CALLBACKS] = @ \cup {SigCtx(d)}]
       ELSE /\ sig' = [sig EXCEPT ![d].pc = "sync", ![d].g = GLOBAL_CALLBACKS,
                                  ![d].snap = expected[GLOBAL_CALLBACKS]]
            /\ UNCHANGED readers
    /\ UNCHANGED <<platform, registry, wbit, GLOBAL_CALLBACKS, SIGNAL_RECEIVED,
                   installed, app, mon, proc, expected, firings>>

\* callback() inside the extern "C" handler: a panic cannot unwind out of it
\* and aborts the process.
handle_shutdown_signal_invoke(d) ==
    /\ proc = "running"
    /\ sig[d].pc = "iter"
    /\ sig[d].idx <= Len(registry[sig[d].g])
    /\ LET cb == registry[sig[d].g][sig[d].idx] IN
        IF Panics(cb)
        THEN /\ sig' = [sig EXCEPT ![d].log = Append(@, cb)]
             /\ proc' = "aborted"
        ELSE IF Reenters(cb)
        THEN /\ sig' = [sig EXCEPT ![d].pc = "cb_write", ![d].log = Append(@, cb)]
             /\ UNCHANGED proc
        ELSE /\ sig' = [sig EXCEPT ![d].idx = @ + 1, ![d].log = Append(@, cb)]
             /\ UNCHANGED proc
    /\ UNCHANGED <<platform, registry, wbit, readers, GLOBAL_CALLBACKS,
                   SIGNAL_RECEIVED, installed, app, mon, expected, firings>>

\* The body of a callback that captured its guard, inside the handler's
\* loop: the write() of register()/clear(), as in execute_callbacks.
handle_shutdown_signal_callback_write(d) ==
    /\ proc = "running"
    /\ sig[d].pc \in {"cb_write", "cb_wait"}
    /\ LET g == sig[d].g
           cb == registry[g][sig[d].idx] IN
        IF sig[d].pc = "cb_write"
        THEN /\ CanTakeWriterBit(g)
             /\ wbit' = [wbit EXCEPT ![g] = SigCtx(d)]
             /\ sig' = [sig EXCEPT ![d].pc = "cb_wait"]
             /\ UNCHANGED <<registry, expected>>
        ELSE /\ WriteGranted(g, SigCtx(d))
             /\ registry' = [registry EXCEPT
                               ![g] = IF cb = "R" THEN Append(@, "A") ELSE <<>>]
             /\ expected' = [expected EXCEPT
                               ![g] = IF cb = "R" THEN Append(@, "A") ELSE <<>>]
             /\ wbit' = [wbit EXCEPT ![g] = NoCtx]
             /\ sig' = [sig EXCEPT ![d].pc = "iter", ![d].idx = @ + 1]
    /\ UNCHANGED <<platform, readers, GLOBAL_CALLBACKS, SIGNAL_RECEIVED,
                   installed, app, mon, proc, firings>>

\* The loop ends and callbacks_lock is dropped.
handle_shutdown_signal_unlock(d) ==
    /\ proc = "running"
    /\ sig[d].pc = "iter"
    /\ sig[d].idx > Len(registry[sig[d].g])
    /\ readers' = [readers EXCEPT ![sig[d].g] = @ \ {SigCtx(d)}]
    /\ sig' = [sig EXCEPT ![d].pc = "sync"]
    /\ UNCHANGED <<platform, registry, wbit, GLOBAL_CALLBACKS, SIGNAL_RECEIVED,
                   installed, app, mon, proc, expected, firings>>

\* libc::sync()
handle_shutdown_signal_sync(d) ==
    /\ proc = "running"
    /\ sig[d].pc = "sync"
    /\ sig' = [sig EXCEPT ![d] = [IdleSig EXCEPT !.pc = "usleep", !.won = TRUE]]
    /\ UNCHANGED <<platform, registry, wbit, readers, GLOBAL_CALLBACKS,
                   SIGNAL_RECEIVED, installed, app, mon, proc, expected, firings>>

\* libc::usleep(100_000)
handle_shutdown_signal_usleep(d) ==
    /\ proc = "running"
    /\ sig[d].pc = "usleep"
    /\ sig' = [sig EXCEPT ![d].pc = "exit"]
    /\ UNCHANGED <<platform, registry, wbit, readers, GLOBAL_CALLBACKS,
                   SIGNAL_RECEIVED, installed, app, mon, proc, expected, firings>>

\* A handler that returns to the interrupted code in place of _exit.
handle_shutdown_signal_returns(d) ==
    /\ proc = "running"
    /\ sig[d].pc = "exit"
    /\ sig' = [sig EXCEPT ![d].pc = "returned"]
    /\ UNCHANGED <<platform, registry, wbit, readers, GLOBAL_CALLBACKS,
                   SIGNAL_RECEIVED, installed, app, mon, proc, expected, firings>>

\* libc::_exit(0)
handle_shutdown_signal_exit(d) ==
    /\ proc = "running"
    /\ sig[d].pc = "exit"
    /\ sig' = [sig EXCEPT ![d].pc = "exited"]
    /\ proc' = "exited"
    /\ UNCHANGED <<platform, registry, wbit, readers, GLOBAL_CALLBACKS,
                   SIGNAL_RECEIVED, installed, app, mon, expected, firings>>

\* start() on a guard of G by the main thread, and the handler.
SignalMonitor(G) ==
    \/ \E g \in G : start_monitoring_signal(1, g)
    \/ \E ok \in BOOLEAN : register_signal_handlers(1, ok)
    \/ \E d \in Deliveries, s \in installed : Deliver(d, s)
    \/ \E d \in Deliveries :
        \/ handle_shutdown_signal_try_read(d)
        \/ handle_shutdown_signal_invoke(d)
        \/ handle_shutdown_signal_unlock(d)
        \/ handle_shutdown_signal_sync(d)
        \/ handle_shutdown_signal_usleep(d)
        \/ handle_shutdown_signal_exit(d)

\* ------------------------------------------------- system-bus monitor
\* src/platform/linux.rs with "dbus-support".  start_monitoring spawns the
\* thread that runs monitor_systemd_signals and returns Ok(()) at once.
FreeSlot(m) ==
    /\ mon[m].pc = "unused"
    /\ IF m = 1 THEN TRUE ELSE mon[m - 1].pc # "unused"

start_monitoring_dbus(t, g, m) ==
    /\ proc = "running"
    /\ platform = "linux_dbus"
    /\ app[t].pc = "idle"
    /\ FreeSlot(m)
    /\ mon' = [mon EXCEPT ![m] = [IdleMon EXCEPT !.pc = "connect", !.g = g]]
    /\ app' = [app EXCEPT ![t] = [IdleApp EXCEPT !.pc = "start_done", !.g = g,
                                                 !.ret = "Ok", !.m = m]]
    /\ UNCHANGED <<platform, registry, wbit, readers, GLOBAL_CALLBACKS,
                   SIGNAL_RECEIVED, installed, sig, proc, expected, firings>>

\* Connection::new_system()?  -- a failure ends the thread (eprintln).
monitor_systemd_signals_connect(m, ok) ==
    /\ proc = "running"
    /\ mon[m].pc = "connect"
    /\ mon' = [mon EXCEPT ![m].pc = IF ok THEN "add_match" ELSE "arm_failed"]
    /\ UNCHANGED <<platform, registry, wbit, readers, GLOBAL_CALLBACKS,
                   SIGNAL_RECEIVED, installed, app, sig, proc, expected, firings>>

\* conn.add_match_no_cb(...)?  -- a failure ends the thread (eprintln).
monitor_systemd_signals_add_match(m, ok) ==
    /\ proc = "running"
    /\ mon[m].pc = "add_match"
    /\ mon' = [mon EXCEPT ![m].pc = IF ok THEN "wait" ELSE "arm_failed"]
    /\ UNCHANGED <<platform, registry, wbit, readers, GLOBAL_CALLBACKS,
                   SIGNAL_RECEIVED, installed, app, sig, proc, expected, firings>>

\* ---------------------------------------------- OS session-event monitor
\* src/platform/windows.rs.  start_monitoring stores the Registry reference,
\* spawns the thread that runs create_message_window and returns Ok(()).
start_monitoring_windows(t, g, m) ==
    /\ proc = "running"
    /\ platform = "windows"
    /\ app[t].pc = "idle"
    /\ FreeSlot(m)
    /\ GLOBAL_CALLBACKS' = g
    /\ mon' = [mon EXCEPT ![m] = [IdleMon EXCEPT !.pc = "create"]]
    /\ app' = [app EXCEPT ![t] = [IdleApp EXCEPT !.pc = "start_done", !.g = g,
                                                 !.ret = "Ok", !.m = m]]
    /\ UNCHANGED <<platform, registry, wbit, readers, SIGNAL_RECEIVED, installed,
                   sig, proc, expected, firings>>

\* RegisterClassW (result ignored) and CreateWindowExW; a null window handle
\* ends the thread (eprintln), otherwise the message loop starts.
create_message_window(m, ok) ==
    /\ proc = "running"
    /\ mon[m].pc = "create"
    /\ mon' = [mon EXCEPT ![m].pc = IF ok THEN "wait" ELSE "arm_failed"]
    /\ UNCHANGED <<platform, registry, wbit, readers, GLOBAL_CALLBACKS,
                   SIGNAL_RECEIVED, installed, app, sig, proc, expected, firings>>

\* ---------------------------------------- system-bus monitor: the loop
\* The model bounds the shutdown messages the monitor threads act on.
RECURSIVE Received(_)
Received(m) == IF m = 0 THEN 0 ELSE firings[m] + Received(m - 1)

\* conn.process(1000 ms)? returns the Option opt: <<>> for None (the wait timed
\* out) or <<msg>> for Some(msg); is_shutdown_signal(&msg) selects the
\* broadcast.
monitor_systemd_signals_process(m, opt) ==
    /\ proc = "running"
    /\ platform = "linux_dbus"
    /\ mon[m].pc = "wait"
    /\ IF (IF opt = <<>> THEN FALSE ELSE is_shutdown_signal(opt[1]))
       THEN /\ Received(MaxStarts) < MaxMessages
            /\ mon' = [mon EXCEPT ![m].pc = "lock", ![m].msg = opt[1]]
            /\ firings' = [firings EXCEPT ![m] = @ + 1]
       ELSE UNCHANGED <<mon, firings>>
    /\ UNCHANGED <<platform, registry, wbit, readers, GLOBAL_CALLBACKS,
                   SIGNAL_RECEIVED, installed, app, sig, proc, expected>>

\* A monitor that goes back to connecting when the wait fails.
monitor_systemd_signals_reconnects(m) ==
    /\ proc = "running"
    /\ platform = "linux_dbus"
    /\ mon[m].pc = "wait"
    /\ mon' = [mon EXCEPT ![m] = [IdleMon EXCEPT !.pc = "connect", !.g = mon[m].g]]
    /\ UNCHANGED <<platform, registry, wbit, readers, GLOBAL_CALLBACKS,
                   SIGNAL_RECEIVED, installed, app, sig, proc, expected, firings>>

\* conn.process(...)? fails (the bus connection is lost): the
\* function returns Err and the thread ends.
monitor_systemd_signals_process_err(m) ==
    /\ proc = "running"
    /\ platform = "linux_dbus"
    /\ mon[m].pc = "wait"
    /\ mon' = [mon EXCEPT ![m] = [IdleMon EXCEPT !.pc = "disconnected", !.g = mon[m].g]]
    /\ UNCHANGED <<platform, registry, wbit, readers, GLOBAL_CALLBACKS,
                   SIGNAL_RECEIVED, installed, app, sig, proc, expected, firings>>

\* let callbacks_lock = callbacks.read();   (blocking)
monitor_systemd_signals_read(m) ==
    /\ proc = "running"
    /\ platform = "linux_dbus"
    /\ mon[m].pc = "lock"
    /\ CanRead(mon[m].g)
    /\ readers' = [readers EXCEPT ![mon[m].g] = @ \cup {MonCtx(m)}]
    /\ mon' = [mon EXCEPT ![m].pc = "iter", ![m].idx = 1,
                          ![m].snap = expected[mon[m].g]]
    /\ UNCHANGED <<platform, registry, wbit, GLOBAL_CALLBACKS, SIGNAL_RECEIVED,
                   installed, app, sig, proc, expected, firings>>

\* callback(): a panic unwinds the monitor thread; the read guard is dropped
\* and the thread ends.
monitor_systemd_signals_invoke(m) ==
    /\ proc = "running"
    /\ platform = "linux_dbus"
    /\ mon[m].pc = "iter"
    /\ mon[m].idx <= Len(registry[mon[m].g])
    /\ LET cb == registry[mon[m].g][mon[m].idx] IN
        IF Panics(cb)
        THEN /\ mon' = [mon EXCEPT ![m].pc = "panicked", ![m].log = Append(@, cb)]
             /\ readers' = [readers EXCEPT ![mon[m].g] = @ \ {MonCtx(m)}]
        ELSE /\ mon' = [mon EXCEPT ![m].idx = @ + 1, ![m].log = Append(@, cb)]
             /\ UNCHANGED readers
    /\ UNCHANGED <<platform, registry, wbit, GLOBAL_CALLBACKS, SIGNAL_RECEIVED,
                   installed, app, sig, proc, expected, firings>>

\* The for loop ends, callbacks_lock is dropped, and the loop waits for the
\* next message.
monitor_systemd_signals_unlock(m) ==
    /\ proc = "running"
    /\ platform = "linux_dbus"
    /\ mon[m].pc = "iter"
    /\ mon[m].idx > Len(registry[mon[m].g])
    /\ readers' = [readers EXCEPT ![mon[m].g] = @ \ {MonCtx(m)}]
    /\ mon' = [mon EXCEPT ![m] = [IdleMon EXCEPT !.pc = "wait", !.g = mon[m].g]]
    /\ UNCHANGED <<platform, registry, wbit, GLOBAL_CALLBACKS, SIGNAL_RECEIVED,
                   installed, app, sig, proc, expected, firings>>

\* ------------------------------------- session-event monitor: the window
\* GetMessageW / DispatchMessageW hand msg to window_proc, whose match
\* selects WM_QUERYENDSESSION | WM_ENDSESSION and reads GLOBAL_CALLBACKS; any
\* other message goes to DefWindowProcW.
window_proc(m, msg) ==
    /\ proc = "running"
    /\ platform = "windows"
    /\ mon[m].pc = "wait"
    /\ IF msg \in SessionEndMessages /\ GLOBAL_CALLBACKS # None
       THEN /\ Received(MaxStarts) < MaxMessages
            /\ mon' = [mon EXCEPT ![m].pc = "lock", ![m].g = GLOBAL_CALLBACKS,
                                  ![m].msg = msg]
            /\ firings' = [firings EXCEPT ![m] = @ + 1]
       ELSE UNCHANGED <<mon, firings>>
    /\ UNCHANGED <<platform, registry, wbit, readers, GLOBAL_CALLBACKS,
                   SIGNAL_RECEIVED, installed, app, sig, proc, expected>>

\* let callbacks_lock = callbacks.read();   (blocking)
window_proc_read(m) ==
    /\ proc = "running"
    /\ platform = "windows"
    /\ mon[m].pc = "lock"
    /\ CanRead(mon[m].g)
    /\ readers' = [readers EXCEPT ![mon[m].g] = @ \cup {MonCtx(m)}]
    /\ mon' = [mon EXCEPT ![m].pc = "iter", ![m].idx = 1,
                          ![m].snap = expected[mon[m].g]]
    /\ UNCHANGED <<platform, registry, wbit, GLOBAL_CALLBACKS, SIGNAL_RECEIVED,
                   installed, app, sig, proc, expected, firings>>

\* callback() inside the extern "system" window_proc: a panic cannot unwind
\* out of it and aborts the process.
window_proc_invoke(m) ==
    /\ proc = "running"
    /\ platform = "windows"
    /\ mon[m].pc = "iter"
    /\ mon[m].idx <= Len(registry[mon[m].g])
    /\ LET cb == registry[mon[m].g][mon[m].idx] IN
        IF Panics(cb)
        THEN /\ mon' = [mon EXCEPT ![m].log = Append(@, cb)]
             /\ proc' = "aborted"
        ELSE /\ mon' = [mon EXCEPT ![m].idx = @ + 1, ![m].log = Append(@, cb)]
             /\ UNCHANGED proc
    /\ UNCHANGED <<platform, registry, wbit, readers, GLOBAL_CALLBACKS,
                   SIGNAL_RECEIVED, installed, app, sig, expected, firings>>

\* The for loop ends, callbacks_lock is dropped and window_proc returns
\* LRESULT(1); the message loop goes on.
window_proc_return(m) ==
    /\ proc = "running"
    /\ platform = "windows"
    /\ mon[m].pc = "iter"
    /\ mon[m].idx > Len(registry[mon[m].g])
    /\ readers' = [readers EXCEPT ![mon[m].g] = @ \ {MonCtx(m)}]
    /\ mon' = [mon EXCEPT ![m] = [IdleMon EXCEPT !.pc = "wait"]]
    /\ UNCHANGED <<platform, registry, wbit, GLOBAL_CALLBACKS, SIGNAL_RECEIVED,
                   installed, app, sig, proc, expected, firings>>

\* start() on a guard of G by the main thread, and the bus monitor threads.
BusMonitor(G) ==
    \/ \E g \in G, m \in Monitors : start_monitoring_dbus(1, g, m)
    \/ \E m \in Monitors, ok \in BOOLEAN : monitor_systemd_signals_connect(m, ok)
    \/ \E m \in Monitors, ok \in BOOLEAN : monitor_systemd_signals_add_match(m, ok)
    \/ \E m \in Monitors, opt \in {<<>>} \cup {<<msg>> : msg \in BusMessages} :
        monitor_systemd_signals_process(m, opt)
    \/ \E m \in Monitors :
        \/ monitor_systemd_signals_process_err(m)
        \/ monitor_systemd_signals_read(m)
        \/ monitor_systemd_signals_invoke(m)
        \/ monitor_systemd_signals_unlock(m)

\* start() on a guard of G by the main thread, and the message-pump threads.
SessionMonitor(G) ==
    \/ \E g \in G, m \in Monitors : start_monitoring_windows(1, g, m)
    \/ \E m \in Monitors, ok \in BOOLEAN : create_message_window(m, ok)
    \/ \E m \in Monitors, msg \in WindowMessages :
        window_proc(m, msg)
    \/ \E m \in Monitors :
        \/ window_proc_read(m)
        \/ window_proc_invoke(m)
        \/ window_proc_return(m)

\* ------------------------------------------------------- specifications
\* The Registry API alone: two threads, two guards, every build.
Next == AppMain(Guards) \/ AppWorker(Guards)
Spec == Init /\ [][Next]_vars

\* The POSIX signal monitor armed on one guard, with the main thread.
InitSignal == Init /\ platform \in SignalPlatforms
NextSignal == AppMain({"g1"}) \/ SignalMonitor({"g1"})
SpecSignal == InitSignal /\ [][NextSignal]_vars

\* The system-bus monitor armed on one guard, with the main thread.
InitBus == Init /\ platform = "linux_dbus"
NextBus == AppMain({"g1"}) \/ BusMonitor({"g1"})
SpecBus == InitBus /\ [][NextBus]_vars

\* The system-bus monitor when start() is called once: one monitor thread.
BusMonitorOnce ==
    \/ start_monitoring_dbus(1, "g1", 1)
    \/ \E ok \in BOOLEAN : monitor_systemd_signals_connect(1, ok)
    \/ \E ok \in BOOLEAN : monitor_systemd_signals_add_match(1, ok)
    \/ \E opt \in {<<>>} \cup {<<msg>> : msg \in BusMessages} :
        monitor_systemd_signals_process(1, opt)
    \/ monitor_systemd_signals_process_err(1)
    \/ monitor_systemd_signals_read(1)
    \/ monitor_systemd_signals_invoke(1)
    \/ monitor_systemd_signals_unlock(1)
NextBusOnce == AppMain({"g1"}) \/ BusMonitorOnce
SpecBusOnce == InitBus /\ [][NextBusOnce]_vars

\* The session-event monitor armed on one guard, with the main thread.
InitSession == Init /\ platform = "windows"
NextSession == AppMain({"g1"}) \/ SessionMonitor({"g1"})
SpecSession == InitSession /\ [][NextSession]_vars

\* The same, with the handler making progress: it runs on a thread the OS
\* keeps scheduling, every statement after the swap is a non-blocking call,
\* and a callback body either returns or panics.  Nothing is assumed of the
\* application thread, which the handler may have interrupted.
HandlerStep(d) ==
    \/ handle_shutdown_signal_try_read(d)
    \/ handle_shutdown_signal_invoke(d)
    \/ handle_shutdown_signal_unlock(d)
    \/ handle_shutdown_signal_sync(d)
    \/ handle_shutdown_signal_usleep(d)
    \/ handle_shutdown_signal_exit(d)
SpecSignalLive ==
    InitSignal /\ [][NextSignal]_vars /\ WF_vars(\E d \in Deliveries : HandlerStep(d))

\* The library on one guard in every build: the main thread, and whichever
\* monitor the platform has.
NextAll ==
    \/ AppMain({"g1"})
    \/ SignalMonitor({"g1"})
    \/ BusMonitorOnce
    \/ SessionMonitor({"g1"})
SpecAll == Init /\ [][NextAll]_vars

\* The POSIX signal monitor on one guard whose callbacks may call back into
\* the guard: the application registers A, R and C.
NextReentrant ==
    \/ \E cb \in {"A"} \cup ReentrantCallbacks : register_write(1, "g1", cb)
    \/ register_push(1)
    \/ clear_write(1, "g1")
    \/ clear_clear(1)
    \/ execute_callbacks_read(1, "g1")
    \/ execute_callbacks_invoke(1)
    \/ execute_callbacks_callback_write(1)
    \/ execute_callbacks_return(1)
    \/ Return(1)
    \/ SignalMonitor({"g1"})
    \/ \E d \in Deliveries : handle_shutdown_signal_callback_write(d)
SpecReentrant == InitSignal /\ [][NextReentrant]_vars

\* The POSIX signal monitor with two guards: start() may be called on either.
NextRearm == AppMain(Guards) \/ SignalMonitor(Guards)
SpecRearm == InitSignal /\ [][NextRearm]_vars

\* ---------------------------------------------------------------- claims
IsPrefix(a, b) == Len(a) <= Len(b) /\ a = SubSeq(b, 1, Len(a))
Range(f) == {f[i] : i \in DOMAIN f}

\* C1 (as stated): when a termination signal reaches the armed handler, every
\* callback in the Registry has been invoked exactly once, in order, by the
\* time the handler starts its flush, the step before it terminates the
\* process; this for every interleaving with the application thread.
C1_EveryCallbackRunsBeforeTermination ==
    \A d \in Deliveries :
        sig[d].pc = "sync" => sig[d].log = sig[d].snap

\* C1 (amended): the delivery that wins the fired flag invokes the callbacks
\* that are in the Registry when its try_read succeeds, in registration
\* order and each at most once, stopping only at a callback that panics, and
\* has invoked all of them when it starts its flush; when try_read fails, or
\* the delivery lost the flag, it invokes none.
C1_FiringRunsRegistryWhenReadAcquired ==
    \A d \in Deliveries :
        /\ ~sig[d].won => sig[d].log = <<>>
        /\ sig[d].pc = "iter" =>
            /\ sig[d].locked
            /\ IsPrefix(sig[d].log, sig[d].snap)
            /\ \A i \in 1..(Len(sig[d].log) - 1) : ~Panics(sig[d].log[i])
            /\ IF proc = "aborted" /\ sig[d].log # <<>> /\ Panics(sig[d].log[Len(sig[d].log)])
               THEN sig[d].idx = Len(sig[d].log)
               ELSE sig[d].idx = Len(sig[d].log) + 1
        /\ sig[d].pc = "sync" =>
            sig[d].log = (IF sig[d].locked THEN sig[d].snap ELSE <<>>)

C1_Witness ==
    \E d \in Deliveries :
        sig[d].pc = "sync" /\ sig[d].locked /\ sig[d].log = <<"A", "B">>

\* C2: callback_count() returns the number of register calls completed since
\* the most recent clear() (duplicates counted), and the Registry holds
\* exactly those entries at all times: none disappears except through clear().
C2_CountIsRegistersSinceClear ==
    /\ \A g \in Guards : registry[g] = expected[g]
    /\ \A t \in Threads :
        app[t].pc = "count_done" => app[t].ret = Len(app[t].snap)

C2_Witness ==
    app[1].pc = "count_done" /\ app[1].ret = 2 /\ app[1].snap = <<"A", "A">>

\* C3: a finished execute_callbacks() call has invoked exactly the callbacks
\* registered since the last clear(), each once and in registration order.
C3_ExecuteRunsAllInOrder ==
    \A t \in Threads :
        app[t].pc \in {"exec_done", "exec_unwound"} => app[t].log = app[t].snap

\* C4: a callback that fails during execute_callbacks() does not keep the
\* callbacks registered after it from running.
C4_FailureDoesNotSkipLaterCallbacks ==
    \A t \in Threads :
        app[t].pc \in {"exec_done", "exec_unwound"} =>
            \A i \in 1..Len(app[t].snap) :
                Panics(app[t].snap[i]) =>
                    \A j \in (i + 1)..Len(app[t].snap) :
                        /\ Len(app[t].log) >= j
                        /\ app[t].log[j] = app[t].snap[j]

\* C5: of the deliveries that have passed the swap exactly one won the fired
\* flag; every other one returned without holding the lock or invoking a
\* callback; and the flag, once set by a delivery, stays set.
Passed == {d \in Deliveries : sig[d].pc # "none"}
C5_ExactlyOneDeliveryWins ==
    /\ Cardinality({d \in Deliveries : sig[d].won}) <= 1
    /\ Passed # {} =>
        /\ SIGNAL_RECEIVED
        /\ Cardinality({d \in Passed : sig[d].won}) = 1
    /\ SIGNAL_RECEIVED => Passed # {}
    /\ \A d \in Passed :
        ~sig[d].won =>
            /\ sig[d].pc = "returned"
            /\ sig[d].log = <<>>
            /\ \A g \in Guards : SigCtx(d) \notin readers[g]

\* A second signal arrived while the first handler was running callbacks.
C5_Witness ==
    \E d1, d2 \in Deliveries :
        /\ sig[d1].pc = "iter" /\ sig[d1].log # <<>>
        /\ sig[d2].pc = "returned"

\* C6: the session-event monitor invokes callbacks only for the first
\* session-end message its window receives; a later WM_QUERYENDSESSION or
\* WM_ENDSESSION invokes none.
C6_SessionEndFiresOnce ==
    platform = "windows" =>
        \A m \in Monitors :
            (mon[m].pc = "iter" /\ mon[m].log # <<>>) => firings[m] = 1

\* C7: a monitor executes the callback sequence at most once in the life of
\* the process, however many termination notifications arrive.
C7_MonitorFiresAtMostOnce ==
    /\ \A m \in Monitors : mon[m].log # <<>> => firings[m] <= 1
    /\ Cardinality({d \in Deliveries : sig[d].won}) <= 1

\* C8: start() has returned Ok only if arming did not fail: the bus
\* connection and the subscription, or the hidden window, were obtained.
C8_OkOnlyWhenArmed ==
    \A t \in Threads :
        (app[t].pc = "start_done" /\ app[t].ret = "Ok" /\ app[t].m # 0) =>
            mon[app[t].m].pc # "arm_failed"

\* C9: when start() has returned an error, no handler that call installed is
\* still in effect.
C9_FailedStartLeavesNoHandler ==
    \A t \in Threads :
        (app[t].pc = "start_done" /\ app[t].ret = "Err") =>
            app[t].did \cap installed = {}

\* C10: once a start() has returned Ok (every handler is installed), no later
\* start() re-assigns the process-wide Registry reference.
Armed == installed = Range(HandledSignals(platform))
C10_ArmedReferenceNeverReassigned ==
    [][Armed => GLOBAL_CALLBACKS' = GLOBAL_CALLBACKS]_vars
\* C11: no invocation of the signal handler for the interrupt-request signal
\* (SIGINT, Ctrl+C) ever invokes a registered callback.
C11_InterruptNeverRunsCallbacks ==
    \A d \in Deliveries :
        sig[d].log # <<>> => sig[d].signo # "SIGINT"
\* C12: a firing that obtained the Registry (so no register was still in
\* progress) has invoked every registered callback, in registration order,
\* when its iteration is over: in the signal monitor before the handler goes
\* on to terminate the process, in the monitor threads when the loop ends or
\* the thread or the process dies.
C12_FiringInvokesEveryRegistered ==
    /\ \A d \in Deliveries :
        (sig[d].locked /\ (sig[d].pc = "sync" \/ proc = "aborted")) =>
            sig[d].log = sig[d].snap
    /\ \A m \in Monitors :
        (\/ mon[m].pc = "panicked"
         \/ mon[m].pc = "iter" /\ (proc = "aborted" \/ mon[m].idx > Len(mon[m].snap))) =>
            mon[m].log = mon[m].snap
\* C13: a delivery that has won the fired flag always brings the process to
\* its end: _exit, or the abort of a callback body that panics instead of
\* returning.  Its steps come in the order callback attempt, sync, usleep,
\* _exit, and it never returns to the interrupted code.
HandlerOrder ==
    {<<"try_read", "iter">>, <<"try_read", "sync">>, <<"try_read", "exit">>,
     <<"iter", "iter">>, <<"iter", "sync">>, <<"sync", "usleep">>,
     <<"usleep", "exit">>, <<"exit", "exited">>}
C13_FiredLeadsToTermination ==
    /\ [][\A d \in Deliveries :
            (sig[d].won /\ sig'[d] # sig[d]) =>
                <<sig[d].pc, sig'[d].pc>> \in HandlerOrder]_vars
    /\ [][proc = "exited" => \E d \in Deliveries : sig'[d].pc = "exited"]_vars
    /\ (\E d \in Deliveries : sig[d].won) ~> (proc = "exited" \/ proc = "aborted")

C13_Witness ==
    \E d \in Deliveries :
        /\ sig[d].won /\ sig[d].pc = "exited" /\ proc = "exited"
        /\ registry["g1"] # <<>>
\* C14: the handler's only access to the Registry is one try_read, a step
\* that is never made to wait.  While register() or clear() owns the write
\* lock the attempt fails: the handler takes no read guard, invokes no
\* callback, and goes on to sync; from the swap to _exit it always has a next
\* step it can take, whatever the application thread is doing.
Skipped(d) == sig[d].pc = "sync" /\ ~sig[d].locked
C14_HandlerNeverWaitsOnRegistry ==
    /\ [](\A d \in Deliveries :
            (sig[d].pc = "try_read" /\ proc = "running") =>
                ENABLED handle_shutdown_signal_try_read(d))
    /\ [][\A d \in Deliveries :
            (/\ sig[d].pc = "try_read" /\ sig'[d] # sig[d]
             /\ (IF GLOBAL_CALLBACKS = None THEN FALSE
                 ELSE wbit[GLOBAL_CALLBACKS] # NoCtx)) =>
                (Skipped(d)' /\ readers' = readers)]_vars
    /\ [](\A d \in Deliveries :
            Skipped(d) =>
                /\ sig[d].log = <<>>
                /\ \A g \in Guards : SigCtx(d) \notin readers[g])
    /\ [](\A d \in Deliveries :
            (proc = "running" /\ sig[d].pc \in {"try_read", "iter", "sync", "usleep", "exit"}) =>
                ENABLED HandlerStep(d))

\* The signal arrived inside register() with a callback already registered.
C14_Witness ==
    \E d \in Deliveries :
        /\ Skipped(d)
        /\ app[1].pc = "reg_wait"
        /\ sig[d].snap # <<>>
\* C15 (first part): an iteration holds its read guard from before its first
\* invocation until after its last, and meanwhile the Registry stays what it
\* was when the guard was taken: no register or clear takes effect.
C15_IterationHoldsSnapshot ==
    /\ \A t \in Threads :
        app[t].pc = "iter" =>
            /\ AppCtx(t) \in readers[app[t].g]
            /\ registry[app[t].g] = app[t].snap
            /\ IsPrefix(app[t].log, app[t].snap)
    /\ \A d \in Deliveries :
        sig[d].pc = "iter" =>
            /\ SigCtx(d) \in readers[sig[d].g]
            /\ registry[sig[d].g] = sig[d].snap
            /\ IsPrefix(sig[d].log, sig[d].snap)
    /\ \A m \in Monitors :
        mon[m].pc = "iter" =>
            /\ MonCtx(m) \in readers[mon[m].g]
            /\ registry[mon[m].g] = mon[m].snap
            /\ IsPrefix(mon[m].log, mon[m].snap)

\* C15: every iteration over the Registry runs on a consistent snapshot, and
\* every callback present when it started has been invoked when it ends,
\* whatever register and clear calls other threads made meanwhile.
C15_IterationInvokesWholeSnapshot ==
    /\ C15_IterationHoldsSnapshot
    /\ \A t \in Threads :
        app[t].pc \in {"exec_done", "exec_unwound"} => app[t].log = app[t].snap
\* C16 (first part): the bus monitor takes the Registry and invokes callbacks
\* only while acting on a message whose interface is
\* org.freedesktop.login1.Manager and whose member is PrepareForShutdown; a
\* timeout or any other message leaves the thread waiting, nothing invoked.
C16_FiresOnlyOnPrepareForShutdown ==
    platform = "linux_dbus" =>
        \A m \in Monitors :
            /\ mon[m].pc \in {"lock", "iter", "panicked"} =>
                /\ mon[m].msg.interface = "org.freedesktop.login1.Manager"
                /\ mon[m].msg.member = "PrepareForShutdown"
            /\ mon[m].log # <<>> => mon[m].pc \in {"iter", "panicked"}
            /\ \A g \in Guards : MonCtx(m) \in readers[g] => mon[m].pc = "iter"

\* C16: the bus monitor fires only on the PrepareForShutdown broadcast, and
\* after a timeout, a non-matching message or a firing the monitor thread is
\* still there, waiting for the next message: a firing never ends it.
C16_BusLoopKeepsWaiting ==
    /\ C16_FiresOnlyOnPrepareForShutdown
    /\ [][\A m \in Monitors :
            mon[m].pc \in {"wait", "lock", "iter"} =>
                mon'[m].pc \in {"wait", "lock", "iter", "disconnected"}]_vars
\* C17: a monitor thread whose wait on the bus has failed is gone for good:
\* it never connects, waits, takes the Registry or invokes a callback again;
\* its end changes neither the Registry nor its lock; and the application
\* thread can still run execute_callbacks() by hand.
Disconnected(m) == mon[m].pc = "disconnected"
C17_DisconnectedMonitorStaysStopped ==
    /\ [][\A m \in Monitors :
            /\ Disconnected(m) => mon'[m] = mon[m]
            /\ mon[m].pc = "wait" =>
                mon'[m].pc \in {"wait", "lock", "disconnected"}
            /\ (~Disconnected(m) /\ Disconnected(m)') =>
                /\ mon[m].pc = "wait"
                /\ UNCHANGED <<registry, wbit, readers, app, proc>>]_vars
    /\ [](\A m \in Monitors :
            Disconnected(m) =>
                /\ mon[m].log = <<>>
                /\ \A g \in Guards : MonCtx(m) \notin readers[g]
                /\ app[1].pc = "idle" => ENABLED execute_callbacks_read(1, mon[m].g)
                /\ app[1].pc = "iter" =>
                    ENABLED (execute_callbacks_invoke(1) \/ execute_callbacks_return(1)))

\* After the monitor thread stopped, a manual execute_callbacks() ran A and B.
C17_Witness ==
    /\ Disconnected(1)
    /\ firings[1] = 0
    /\ app[1].pc = "exec_done" /\ app[1].log = <<"A", "B">>
\* C18: the Registry changes only by the push that completes a register() and
\* by the clear that completes a clear(); callback_count(), execute_callbacks(),
\* start() and the firing paths of the monitors leave it as it is.
C18_OnlyRegisterAndClearModify ==
    [][\A g \in Guards :
        registry'[g] # registry[g] =>
            \E t \in Threads :
                /\ app[t].g = g
                /\ app'[t].pc = "idle"
                /\ \/ /\ app[t].pc = "reg_wait"
                      /\ registry'[g] = Append(registry[g], app[t].cb)
                   \/ /\ app[t].pc = "clear_wait"
                      /\ registry'[g] = <<>>]_vars

\* A manual execute_callbacks() has returned and the Registry is what it was.
C18_Witness ==
    /\ app[1].pc = "exec_done"
    /\ app[1].log = <<"A", "B">>
    /\ registry["g1"] = <<"A", "B">>
\* C19 (first part): execute_callbacks() neither sets nor consults the fired
\* flag: none of its steps changes SIGNAL_RECEIVED, and the call can start
\* whenever the Registry can be read, whether or not a monitor has fired.
C19_ManualCallIgnoresFiredFlag ==
    /\ [][\A t \in Threads :
            (app'[t] # app[t] /\ app'[t].pc \in {"iter", "exec_done", "exec_unwound"}) =>
                SIGNAL_RECEIVED' = SIGNAL_RECEIVED]_vars
    /\ [](\A g \in Guards :
            (proc = "running" /\ app[1].pc = "idle" /\ CanRead(g)) =>
                ENABLED execute_callbacks_read(1, g))

\* C19: manual calls and monitor firings are independent of each other and
\* each of them runs every callback once, so that a callback has run as many
\* times as there were manual calls and firings: a manual call that has
\* ended, before or after the monitor fired, and a firing that has read the
\* Registry, after any manual calls, have each invoked the whole Registry.
C19_RunsEqualCallsPlusFirings ==
    /\ C19_ManualCallIgnoresFiredFlag
    /\ [](\A t \in Threads :
            app[t].pc \in {"exec_done", "exec_unwound"} =>
                \A cb \in Callbacks :
                    Cardinality({i \in DOMAIN app[t].log : app[t].log[i] = cb})
                        = Cardinality({i \in DOMAIN app[t].snap : app[t].snap[i] = cb}))
    /\ [](\A d \in Deliveries :
            (sig[d].locked /\ (sig[d].pc = "sync" \/ proc = "aborted")) =>
                \A cb \in Callbacks :
                    Cardinality({i \in DOMAIN sig[d].log : sig[d].log[i] = cb})
                        = Cardinality({i \in DOMAIN sig[d].snap : sig[d].snap[i] = cb}))
\* C20 (first part): a firing iterates the Registry itself, not a copy made
\* at start(): while it holds its read guard, what it has invoked is a
\* prefix of the Registry as it is now.
C20_FiringReadsLiveRegistry ==
    /\ \A d \in Deliveries :
        sig[d].pc = "iter" => IsPrefix(sig[d].log, registry[sig[d].g])
    /\ \A m \in Monitors :
        mon[m].pc = "iter" => IsPrefix(mon[m].log, registry[mon[m].g])

\* C20: a firing invokes exactly the callbacks that are in the live Registry
\* when it acquires read access, those registered after start() included and
\* none after a clear(): when its loop is over, what it has invoked is the
\* Registry.
C20_FiringInvokesLiveRegistry ==
    /\ C20_FiringReadsLiveRegistry
    /\ \A d \in Deliveries :
        (sig[d].pc = "iter" /\ (proc = "aborted" \/ sig[d].idx > Len(registry[sig[d].g]))) =>
            sig[d].log = registry[sig[d].g]
    /\ \A m \in Monitors :
        (mon[m].pc = "iter" /\ (proc = "aborted" \/ mon[m].idx > Len(registry[mon[m].g]))) =>
            mon[m].log = registry[mon[m].g]
\* C21: a callback whose body calls register() or clear() on the guard whose
\* iteration is running it never returns.  The iteration still holds its
\* read guard, the write() of the body is never granted, the Registry stays
\* as it was, and the execute_callbacks() call, or the firing and the process
\* termination after it, never completes.
InCallbackWrite(pc) == pc \in {"cb_write", "cb_wait"}
C21_ReentrantCallbackNeverReturns ==
    /\ [][\A t \in Threads :
            InCallbackWrite(app[t].pc) =>
                /\ InCallbackWrite(app'[t].pc)
                /\ registry' = registry]_vars
    /\ [][\A d \in Deliveries :
            InCallbackWrite(sig[d].pc) =>
                /\ InCallbackWrite(sig'[d].pc)
                /\ registry' = registry
                /\ proc' = "running"]_vars
    /\ [](\A t \in Threads :
            InCallbackWrite(app[t].pc) => AppCtx(t) \in readers[app[t].g])
    /\ [](\A d \in Deliveries :
            InCallbackWrite(sig[d].pc) => SigCtx(d) \in readers[sig[d].g])
    /\ [](\A t \in Threads :
            app[t].pc = "exec_done" => \A i \in DOMAIN app[t].log : ~Reenters(app[t].log[i]))
    /\ [](\A d \in Deliveries :
            sig[d].pc = "sync" => \A i \in DOMAIN sig[d].log : ~Reenters(sig[d].log[i]))

\* Both are stuck after A, inside C's clear(): execute_callbacks() holding
\* the writer bit and waiting for the readers, the handler waiting for the bit.
C21_Witness ==
    /\ app[1].pc = "cb_wait" /\ wbit["g1"] = AppCtx(1)
    /\ app[1].log = <<"A", "C">>
    /\ \E d \in Deliveries : sig[d].pc = "cb_write" /\ sig[d].log = <<"A", "C">>
====
